---- MODULE Spec2Model ----
(***************************************************************************)
(* Interview session lifecycle (InterviewService + InterviewRepository)   *)
(* of smart-interview-trainer-be.                                          *)
(*                                                                         *)
(* Spec      : updateInterviewStatus calls executed one after another.     *)
(* ConcSpec  : several updateInterviewStatus calls in flight; the awaited  *)
(*             findById read and the awaited updateStatus write of a call  *)
(*             are separate steps.                                         *)
(*                                                                         *)
(* Live feedback channel (InterviewGateway).                               *)
(*                                                                         *)
(* GatewaySpec     : the gateway's handlers and interval callbacks, each   *)
(*                   run to completion on the single-threaded event loop.  *)
(* GatewayFairSpec : GatewaySpec with every armed interval firing again.   *)
(* ChannelSpec     : GatewaySpec started from each content the session     *)
(*                   store can have.                                       *)
(* PeerSpec        : the gateway serving two connections at once.          *)
(* CountSpec       : GatewaySpec counting the feedback events emitted to   *)
(*                   each connection over its lifetime.                    *)
(*                                                                         *)
(* Authentication (AuthController + AuthService).                          *)
(*                                                                         *)
(* AuthSpec : the requests of the auth endpoints executed one after        *)
(*            another, the clock advancing and the TTL index of the otp    *)
(*            collection deleting expired documents.                       *)
(***************************************************************************)
EXTENDS Integers, Sequences, FiniteSets, TLC

\* ---------------------------------------------------------------- bounds
MaxSessions == 1    \* sessions the store can hold, ids 1..MaxSessions
MaxTime == 2        \* the wall clock runs over 0..MaxTime
MaxCalls == 2       \* updateInterviewStatus calls in flight at once (ConcSpec)
MaxClients == 1     \* socket connections, client ids 1..MaxClients
MaxStarts == 2      \* startInterviewSession signals handled in one behaviour

\* ----------------------------------------------------------- data model
CREATED == "CREATED"
IN_PROGRESS == "IN_PROGRESS"
COMPLETED == "COMPLETED"
InterviewStatus == {CREATED, IN_PROGRESS, COMPLETED}

\* A Date is a clock reading in 0..MaxTime; Null is the null / undefined Date.
Null == -1

\* findById / findByIdAndUpdate answer for an id with no document.
NullDoc == [null |-> TRUE]

\* The ids a request can carry: those the store can assign, and one more that
\* never names a session.
Ids == 1..(MaxSessions + 1)
Calls == 1..MaxCalls

OK == "OK"
NotFound == "NotFound"
InvalidTransition == "InvalidTransition"

\* The request sequence of the lifecycle scenario; the call history keeps
\* as many calls as the scenario is long.
Scenario == <<IN_PROGRESS, COMPLETED, IN_PROGRESS>>

VARIABLES
    sessions,   \* the interviews collection: id -> document, for created ids
    clock,      \* what new Date() returns now
    hist,       \* the last Len(Scenario) completed updateInterviewStatus calls
    calls,      \* ConcSpec: call slot -> the call's position and locals
    sockets,        \* client id -> state of its socket
    activeSessions, \* InterviewGateway.activeSessions: client id -> ActiveSession
    timers,         \* the armed intervals: handle -> the closure of its callback
    started,        \* handle -> client id, for every interval ever created
    outbox,         \* client id -> the last two events emitted on its socket
    received,       \* CountSpec: client id -> feedback events emitted to it
    users,      \* the users collection: email -> document
    otps,       \* the otps collection: <<email, purpose>> -> document
    resp        \* the response to the last auth request

svcVars == <<sessions, clock, hist, calls>>
gwVars == <<sockets, activeSessions, timers, started, outbox, received>>
authVars == <<users, otps, resp>>
vars == <<sessions, clock, hist, calls,
          sockets, activeSessions, timers, started, outbox, received,
          users, otps, resp>>

\* ------------------------------------------------------------ repository
\* InterviewRepository.createSession: the document a new session starts as.
createSession == [status |-> CREATED, startedAt |-> Null, completedAt |-> Null]

\* Variant of findById that answers a fresh document for an unknown id.
findByIdDefaulting(db, id) == IF id \in DOMAIN db THEN db[id] ELSE createSession

\* InterviewRepository.findById
findById(db, id) == IF id \in DOMAIN db THEN db[id] ELSE NullDoc

\* JavaScript truthiness of a Date | undefined: every Date object is truthy.
Truthy(d) == d # Null

\* Variant of applyUpdate whose $set leaves completedAt out.
applyUpdateWithoutCompletedAt(doc, status, timestamps) ==
    [status |-> status,
     startedAt |-> IF Truthy(timestamps.startedAt)
                   THEN timestamps.startedAt ELSE doc.startedAt,
     completedAt |-> doc.completedAt]

\* The $set document InterviewRepository.updateStatus builds, applied to doc.
applyUpdate(doc, status, timestamps) ==
    [status |-> status,
     startedAt |-> IF Truthy(timestamps.startedAt)
                   THEN timestamps.startedAt ELSE doc.startedAt,
     completedAt |-> IF Truthy(timestamps.completedAt)
                     THEN timestamps.completedAt ELSE doc.completedAt]

\* InterviewRepository.updateStatus: findByIdAndUpdate(id, {$set}, {new: true}).
\* Yields the collection after the write and the returned document.
updateStatus(db, id, status, timestamps) ==
    IF id \in DOMAIN db
    THEN [db |-> [db EXCEPT ![id] = applyUpdate(db[id], status, timestamps)],
          doc |-> applyUpdate(db[id], status, timestamps)]
    ELSE [db |-> db, doc |-> NullDoc]

\* --------------------------------------------------------------- service
\* Variant of the table that lets a completed interview be reopened.
allowedTransitionsReopen(currentStatus) ==
    CASE currentStatus = CREATED -> {IN_PROGRESS}
      [] currentStatus = IN_PROGRESS -> {COMPLETED}
      [] currentStatus = COMPLETED -> {IN_PROGRESS}

\* The allowedTransitions table of validateStateTransition.
allowedTransitions(currentStatus) ==
    CASE currentStatus = CREATED -> {IN_PROGRESS}
      [] currentStatus = IN_PROGRESS -> {COMPLETED}
      [] currentStatus = COMPLETED -> {}

\* Variant of validateStateTransition that accepts any forward request, so
\* CREATED may skip to COMPLETED.
validateStateTransitionForward(currentStatus, newStatus) ==
    \/ currentStatus = newStatus
    \/ newStatus \in allowedTransitions(currentStatus)
    \/ currentStatus = CREATED /\ newStatus = COMPLETED

\* InterviewService.validateStateTransition: TRUE when it returns, FALSE when
\* it throws BadRequestException.
validateStateTransition(currentStatus, newStatus) ==
    IF currentStatus = newStatus
    THEN TRUE
    ELSE newStatus \in allowedTransitions(currentStatus)

\* Variant of prepareTimestamps that stamps startedAt on completion as well.
prepareTimestampsRestamping(newStatus, now) ==
    [startedAt |-> IF newStatus \in {IN_PROGRESS, COMPLETED} THEN now ELSE Null,
     completedAt |-> IF newStatus = COMPLETED THEN now ELSE Null]

\* The "Prepare timestamp updates" block of updateInterviewStatus.
prepareTimestamps(newStatus, now) ==
    [startedAt |-> IF newStatus = IN_PROGRESS THEN now ELSE Null,
     completedAt |-> IF newStatus = COMPLETED THEN now ELSE Null]

\* Variant of updateInterviewStatus that persists the requested status before
\* it validates the transition.
updateInterviewStatusWriteFirst(db, id, newStatus, now) ==
    LET interview == findById(db, id) IN
    IF interview = NullDoc
    THEN [outcome |-> NotFound, db |-> db, wrote |-> FALSE, doc |-> NullDoc]
    ELSE LET w == updateStatus(db, id, newStatus,
                               prepareTimestamps(newStatus, now)) IN
         IF ~validateStateTransition(interview.status, newStatus)
         THEN [outcome |-> InvalidTransition, db |-> w.db, wrote |-> TRUE,
               doc |-> NullDoc]
         ELSE [outcome |-> OK, db |-> w.db, wrote |-> TRUE, doc |-> w.doc]

\* InterviewService.updateInterviewStatus run to completion against db at time
\* now: the outcome, the collection afterwards, whether updateStatus was
\* invoked, and the returned document (NullDoc when it throws).
updateInterviewStatus(db, id, newStatus, now) ==
    LET interview == findById(db, id) IN
    IF interview = NullDoc
    THEN [outcome |-> NotFound, db |-> db, wrote |-> FALSE, doc |-> NullDoc]
    ELSE IF ~validateStateTransition(interview.status, newStatus)
    THEN [outcome |-> InvalidTransition, db |-> db, wrote |-> FALSE,
          doc |-> NullDoc]
    ELSE LET w == updateStatus(db, id, newStatus,
                               prepareTimestamps(newStatus, now)) IN
         IF w.doc = NullDoc
         THEN [outcome |-> NotFound, db |-> w.db, wrote |-> TRUE,
               doc |-> NullDoc]
         ELSE [outcome |-> OK, db |-> w.db, wrote |-> TRUE, doc |-> w.doc]

\* --------------------------------------------------------------- gateway
Clients == 1..MaxClients

\* The sessionId a startInterviewSession payload can carry; "" is the empty one.
SessionIds == {"", "s1", "s2"}

\* FeedbackType and FeedbackSeverity.
PACE == "PACE"
FILLER == "FILLER"
CONFIDENCE == "CONFIDENCE"
RELEVANCE == "RELEVANCE"
LOW == "LOW"
MEDIUM == "MEDIUM"
HIGH == "HIGH"

\* The tables of generateMockFeedback.
feedbackTypes == <<PACE, FILLER, CONFIDENCE, RELEVANCE>>
severities == <<LOW, MEDIUM, HIGH>>
messages ==
    [t \in {PACE, FILLER, CONFIDENCE, RELEVANCE} |->
       CASE t = PACE ->
              <<"Speaking pace is good",
                "Try to slow down a bit",
                "Pace is too fast, take your time">>
         [] t = FILLER ->
              <<"Minimal filler words detected",
                "Moderate use of filler words like um and uh",
                "High frequency of filler words - practice pausing instead">>
         [] t = CONFIDENCE ->
              <<"Confident tone and delivery",
                "Moderate confidence level",
                "Try to speak with more confidence">>
         [] t = RELEVANCE ->
              <<"Answer is highly relevant",
                "Answer is somewhat relevant but could be more focused",
                "Answer is straying from the question">>]

\* severities.indexOf(severity), zero-based as in the source.
indexOf(seq, x) == (CHOOSE i \in 1..Len(seq) : seq[i] = x) - 1

\* Variant of generateMockFeedback that indexes the tables from count - 1.
generateMockFeedbackZeroBased(count) ==
    LET type == feedbackTypes[((count - 1) % Len(feedbackTypes)) + 1]
        severity == severities[((count - 1) % Len(severities)) + 1]
        severityIndex == indexOf(severities, severity)
    IN [type |-> type, message |-> messages[type][severityIndex + 1],
        severity |-> severity]

\* InterviewGateway.generateMockFeedback, without the informational timestamp.
generateMockFeedback(count) ==
    LET type == feedbackTypes[(count % Len(feedbackTypes)) + 1]
        severity == severities[(count % Len(severities)) + 1]
        severityIndex == indexOf(severities, severity)
    IN [type |-> type, message |-> messages[type][severityIndex + 1],
        severity |-> severity]

\* "Stop after 10 feedback messages".
MaxFeedback == 10

\* The model stops counting the ticks of one interval here, past the cap.
CountLimit == MaxFeedback + 2

\* Variant of the cap test that lets one more event through.
capReachedOffByOne(feedbackCount) == feedbackCount > MaxFeedback

\* The cap test of the interval callback.
capReached(feedbackCount) == feedbackCount >= MaxFeedback

\* An event handed to client.emit. type, message and severity are the payload
\* of a "feedback" event; n and sessionId are what the callback logs with it;
\* timer is the interval that emitted it; delivered tells whether the socket
\* still had its transport; loopAlive tells whether the client had an
\* ActiveSession when the event was emitted.
NoFeedback == [type |-> "", message |-> "", severity |-> ""]
Event(name, fb, n, sessionId, timer, delivered, loopAlive) ==
    [event |-> name, type |-> fb.type, message |-> fb.message,
     severity |-> fb.severity, n |-> n, sessionId |-> sessionId,
     timer |-> timer, delivered |-> delivered, loopAlive |-> loopAlive]
NoEvent == Event("none", NoFeedback, 0, "", 0, FALSE, FALSE)

\* client.emit(name, payload): the outbox keeps the last two events.
emit(g, clientId, e) ==
    [g EXCEPT !.outbox[clientId] = [prev |-> @.last, last |-> e]]

\* clearInterval(handle): the interval never fires again; clearing a handle
\* that is not armed does nothing.
clearInterval(tms, handle) == [t \in DOMAIN tms \ {handle} |-> tms[t]]

\* Map.delete and Map.set on activeSessions.
mapDelete(m, k) == [x \in DOMAIN m \ {k} |-> m[x]]
mapSet(m, k, v) == [x \in DOMAIN m \cup {k} |-> IF x = k THEN v ELSE m[x]]

\* Variant of cleanupClientSession that clears the interval and keeps the
\* map entry.
cleanupClientSessionKeepsEntry(g, clientId) ==
    IF clientId \in DOMAIN g.activeSessions
    THEN [g EXCEPT
            !.timers = clearInterval(@,
                          g.activeSessions[clientId].feedbackTimer)]
    ELSE g

\* Variant of cleanupClientSession that deletes the map entry and leaves the
\* interval armed.
cleanupClientSessionKeepsTimer(g, clientId) ==
    IF clientId \in DOMAIN g.activeSessions
    THEN [g EXCEPT !.activeSessions = mapDelete(@, clientId)]
    ELSE g

\* Variant of cleanupClientSession that tears down every client's session
\* bound to the same sessionId.
cleanupClientSessionBySessionId(g, clientId) ==
    IF clientId \in DOMAIN g.activeSessions
    THEN LET same == {c \in DOMAIN g.activeSessions :
                        g.activeSessions[c].sessionId
                            = g.activeSessions[clientId].sessionId}
         IN [g EXCEPT
               !.timers = [t \in DOMAIN @ \
                              {g.activeSessions[c].feedbackTimer : c \in same}
                           |-> @[t]],
               !.activeSessions = [c \in DOMAIN @ \ same |-> @[c]]]
    ELSE g

\* Variant of cleanupClientSession that, finding no session for the client,
\* clears the whole map and every interval.
cleanupClientSessionClearsAllWhenMissing(g, clientId) ==
    IF clientId \in DOMAIN g.activeSessions
    THEN [g EXCEPT
            !.timers = clearInterval(@,
                          g.activeSessions[clientId].feedbackTimer),
            !.activeSessions = mapDelete(@, clientId)]
    ELSE [g EXCEPT !.timers = <<>>, !.activeSessions = <<>>]

\* InterviewGateway.cleanupClientSession
cleanupClientSession(g, clientId) ==
    IF clientId \in DOMAIN g.activeSessions
    THEN [g EXCEPT
            !.timers = clearInterval(@,
                          g.activeSessions[clientId].feedbackTimer),
            !.activeSessions = mapDelete(@, clientId)]
    ELSE g

\* Variant of the callback that never tears its session down at the cap.
tickNoTeardown(g, handle, delivered) ==
    LET tm == g.timers[handle]
        feedbackCount == tm.feedbackCount + 1
        feedback == generateMockFeedback(feedbackCount)
        g1 == [g EXCEPT !.timers[handle].feedbackCount = feedbackCount]
    IN emit(g1, tm.client,
            Event("feedback", feedback, feedbackCount, tm.sessionId,
                  handle, delivered, tm.client \in DOMAIN g.activeSessions))

\* Variant of the callback that gives up when the event could not be
\* transmitted, before it tests the cap.
tickAbortsOnFailedTransmit(g, handle, delivered) ==
    LET tm == g.timers[handle]
        feedbackCount == tm.feedbackCount + 1
        feedback == generateMockFeedback(feedbackCount)
        g1 == [g EXCEPT !.timers[handle].feedbackCount = feedbackCount]
        g2 == emit(g1, tm.client,
                   Event("feedback", feedback, feedbackCount, tm.sessionId,
                         handle, delivered,
                         tm.client \in DOMAIN g.activeSessions))
    IN IF delivered /\ capReached(feedbackCount)
       THEN cleanupClientSession(g2, tm.client)
       ELSE g2

\* Variant of the callback that selects the event before it increments
\* feedbackCount.
tickSelectsBeforeIncrement(g, handle, delivered) ==
    LET tm == g.timers[handle]
        feedbackCount == tm.feedbackCount + 1
        feedback == generateMockFeedback(tm.feedbackCount)
        g1 == [g EXCEPT !.timers[handle].feedbackCount = feedbackCount]
        g2 == emit(g1, tm.client,
                   Event("feedback", feedback, feedbackCount, tm.sessionId,
                         handle, delivered,
                         tm.client \in DOMAIN g.activeSessions))
    IN IF capReached(feedbackCount)
       THEN cleanupClientSession(g2, tm.client)
       ELSE g2

\* The callback startMockFeedbackEmission hands to setInterval, for the
\* interval with this handle; delivered: the socket still has its transport.
tick(g, handle, delivered) ==
    LET tm == g.timers[handle]
        feedbackCount == tm.feedbackCount + 1
        feedback == generateMockFeedback(feedbackCount)
        g1 == [g EXCEPT !.timers[handle].feedbackCount = feedbackCount]
        g2 == emit(g1, tm.client,
                   Event("feedback", feedback, feedbackCount, tm.sessionId,
                         handle, delivered,
                         tm.client \in DOMAIN g.activeSessions))
    IN IF capReached(feedbackCount)
       THEN cleanupClientSession(g2, tm.client)
       ELSE g2

\* Variant of startMockFeedbackEmission whose count carries on from the last
\* feedback event emitted to the client.
startMockFeedbackEmissionResumesCount(g, clientId, sessionId) ==
    LET handle == Len(g.started) + 1 IN
    [g EXCEPT
       !.timers = mapSet(@, handle,
                         [client |-> clientId, sessionId |-> sessionId,
                          feedbackCount |->
                              IF g.outbox[clientId].last.event = "feedback"
                              THEN g.outbox[clientId].last.n % MaxFeedback
                              ELSE 0]),
       !.started = Append(@, clientId)]

\* InterviewGateway.startMockFeedbackEmission: setInterval arms a new interval
\* whose closure holds the client, the sessionId and feedbackCount = 0.
startMockFeedbackEmission(g, clientId, sessionId) ==
    LET handle == Len(g.started) + 1 IN
    [g EXCEPT
       !.timers = mapSet(@, handle,
                         [client |-> clientId, sessionId |-> sessionId,
                          feedbackCount |-> 0]),
       !.started = Append(@, clientId)]

\* Variant of handleStartInterviewSession without the cleanup of the client's
\* existing session.
handleStartInterviewSessionNoCleanup(g, clientId, sessionId) ==
    LET g2 == startMockFeedbackEmission(g, clientId, sessionId)
    IN [g2 EXCEPT
          !.activeSessions = mapSet(@, clientId,
                                [sessionId |-> sessionId, clientId |-> clientId,
                                 feedbackTimer |-> Len(g2.started)])]

\* Variant of handleStartInterviewSession that cleans up the client's
\* existing session only when it has one, after storing the new session.
handleStartInterviewSessionCleansLast(g, clientId, sessionId) ==
    LET g2 == startMockFeedbackEmission(g, clientId, sessionId)
        g3 == [g2 EXCEPT
                 !.activeSessions = mapSet(@, clientId,
                                [sessionId |-> sessionId, clientId |-> clientId,
                                 feedbackTimer |-> Len(g2.started)])]
    IN IF clientId \in DOMAIN g.activeSessions
       THEN cleanupClientSession(g3, clientId)
       ELSE g3

\* InterviewGateway.handleStartInterviewSession
handleStartInterviewSession(g, clientId, sessionId) ==
    LET g1 == cleanupClientSession(g, clientId)
        g2 == startMockFeedbackEmission(g1, clientId, sessionId)
    IN [g2 EXCEPT
          !.activeSessions = mapSet(@, clientId,
                                [sessionId |-> sessionId, clientId |-> clientId,
                                 feedbackTimer |-> Len(g2.started)])]

\* Variant of handleConnection that starts the feedback loop right away.
handleConnectionAutoStart(g, clientId) ==
    emit(handleStartInterviewSession(g, clientId, "s1"), clientId,
         Event("connected", NoFeedback, 0, "", 0, TRUE,
               clientId \in DOMAIN g.activeSessions))

\* InterviewGateway.handleConnection
handleConnection(g, clientId) ==
    emit(g, clientId,
         Event("connected", NoFeedback, 0, "", 0, TRUE,
               clientId \in DOMAIN g.activeSessions))

\* Variant of handleDisconnect that emits its notice before the cleanup.
handleDisconnectNotifiesFirst(g, clientId) ==
    cleanupClientSession(
        emit(g, clientId,
             Event("disconnected", NoFeedback, 0, "", 0, FALSE,
                   clientId \in DOMAIN g.activeSessions)),
        clientId)

\* InterviewGateway.handleDisconnect: the socket is already disconnected when
\* it runs, so its "disconnected" event is dropped by the transport.
handleDisconnect(g, clientId) ==
    LET g1 == cleanupClientSession(g, clientId) IN
    emit(g1, clientId,
         Event("disconnected", NoFeedback, 0, "", 0, FALSE,
               clientId \in DOMAIN g1.activeSessions))

\* ------------------------------------------------------- authentication
\* The email, passwords and OTP codes the requests carry; every query of the
\* service is keyed by the email of one account.
Emails == {"ann@x.io"}
Passwords == {"password1", "password2"}
OtpCodes == {"111111", "222222"}

\* OtpPurpose
REGISTRATION == "registration"
PASSWORD_RESET == "password-reset"

\* AuthService.OTP_EXPIRY_MINUTES, in units of the clock: one unit of the
\* clock is five minutes.
OTP_EXPIRY == 1

\* The exceptions of the auth endpoints, by their HTTP status.
Conflict == "Conflict"
BadRequest == "BadRequest"
Unauthorized == "Unauthorized"

\* bcrypt.hash and bcrypt.compare.
hash(password) == [bcrypt |-> password]
compare(password, hashed) == hashed = hash(password)

\* What an auth request answers: status, message and the collections as the
\* request leaves them.
Answer(db, status, message) ==
    [users |-> db.users, otps |-> db.otps,
     status |-> status, message |-> message]
NoResponse == [op |-> "none", email |-> "", status |-> OK, message |-> ""]

\* AuthService.generateAndSendOtp: deleteMany({email, purpose}), then create;
\* emailSent is what emailService.sendTemplatedEmail returns. ok is FALSE
\* when the method throws.
generateAndSendOtp(db, email, purpose, otp, now, emailSent) ==
    [db |-> [db EXCEPT
               !.otps = mapSet(mapDelete(@, <<email, purpose>>),
                               <<email, purpose>>,
                               [otp |-> otp, expiresAt |-> now + OTP_EXPIRY,
                                isUsed |-> FALSE])],
     ok |-> emailSent]

\* otpModel.findOne({email, purpose, isUsed: false}): at most one document
\* per email and purpose exists, generateAndSendOtp deleting before it creates.
findOtp(db, email, purpose) ==
    IF <<email, purpose>> \in DOMAIN db.otps
          /\ ~db.otps[<<email, purpose>>].isUsed
    THEN db.otps[<<email, purpose>>] ELSE NullDoc

\* Variant of validateOtp that marks no OTP as used.
validateOtpNeverMarksUsed(db, email, otp, purpose, now) ==
    LET otpRecord == findOtp(db, email, purpose) IN
    IF otpRecord = NullDoc
    THEN [db |-> db, ok |-> FALSE, message |-> "Invalid or expired OTP"]
    ELSE IF now > otpRecord.expiresAt
    THEN [db |-> db, ok |-> FALSE,
          message |-> "OTP has expired. Please request a new one."]
    ELSE IF otpRecord.otp # otp
    THEN [db |-> db, ok |-> FALSE, message |-> "Invalid OTP"]
    ELSE [db |-> db, ok |-> TRUE, message |-> ""]

\* AuthService.validateOtp; ok is FALSE when it throws BadRequestException.
validateOtp(db, email, otp, purpose, now) ==
    LET otpRecord == findOtp(db, email, purpose) IN
    IF otpRecord = NullDoc
    THEN [db |-> db, ok |-> FALSE, message |-> "Invalid or expired OTP"]
    ELSE IF now > otpRecord.expiresAt
    THEN [db |-> db, ok |-> FALSE,
          message |-> "OTP has expired. Please request a new one."]
    ELSE IF otpRecord.otp # otp
    THEN [db |-> db, ok |-> FALSE, message |-> "Invalid OTP"]
    ELSE IF purpose = REGISTRATION
    THEN [db |-> [db EXCEPT !.otps[<<email, purpose>>].isUsed = TRUE],
          ok |-> TRUE, message |-> ""]
    ELSE [db |-> db, ok |-> TRUE, message |-> ""]

\* AuthService.register
register(db, email, password, otp, now, emailSent) ==
    IF email \in DOMAIN db.users
    THEN Answer(db, Conflict, "Email already registered")
    ELSE LET db1 == [db EXCEPT
                       !.users = mapSet(@, email,
                                        [password |-> hash(password),
                                         isEmailVerified |-> FALSE])]
             g == generateAndSendOtp(db1, email, REGISTRATION, otp, now,
                                     emailSent)
         IN IF ~g.ok
            THEN Answer(g.db, BadRequest,
                        "Failed to send OTP email. Please try again.")
            ELSE Answer(g.db, OK,
                   "Registration successful. Please verify your email with the OTP sent.")

\* AuthService.verifyRegistrationOtp
verifyRegistrationOtp(db, email, otp, now) ==
    LET v == validateOtp(db, email, otp, REGISTRATION, now) IN
    IF ~v.ok THEN Answer(v.db, BadRequest, v.message)
    ELSE IF email \notin DOMAIN v.db.users
    THEN Answer(v.db, BadRequest, "User not found")
    ELSE Answer([v.db EXCEPT !.users[email].isEmailVerified = TRUE], OK,
                "Email verified successfully. You can now log in.")

\* Variant of login that does not look at isEmailVerified.
loginWithoutVerificationCheck(db, email, password) ==
    IF email \notin DOMAIN db.users
    THEN Answer(db, Unauthorized, "Invalid email or password")
    ELSE IF ~compare(password, db.users[email].password)
    THEN Answer(db, Unauthorized, "Invalid email or password")
    ELSE Answer(db, OK, "accessToken")

\* AuthService.login
login(db, email, password) ==
    IF email \notin DOMAIN db.users
    THEN Answer(db, Unauthorized, "Invalid email or password")
    ELSE IF ~compare(password, db.users[email].password)
    THEN Answer(db, Unauthorized, "Invalid email or password")
    ELSE IF ~db.users[email].isEmailVerified
    THEN Answer(db, Unauthorized,
                "Please verify your email before logging in")
    ELSE Answer(db, OK, "accessToken")

\* AuthService.sendPasswordResetOtp
sendPasswordResetOtp(db, email, otp, now, emailSent) ==
    IF email \notin DOMAIN db.users
    THEN Answer(db, OK, "If the email exists, an OTP has been sent.")
    ELSE LET g == generateAndSendOtp(db, email, PASSWORD_RESET, otp, now,
                                     emailSent)
         IN IF ~g.ok
            THEN Answer(g.db, BadRequest,
                        "Failed to send OTP email. Please try again.")
            ELSE Answer(g.db, OK, "OTP sent to your email address.")

\* AuthService.verifyPasswordResetOtp
verifyPasswordResetOtp(db, email, otp, now) ==
    LET v == validateOtp(db, email, otp, PASSWORD_RESET, now) IN
    IF ~v.ok THEN Answer(v.db, BadRequest, v.message)
    ELSE Answer(v.db, OK, "OTP verified. You can now reset your password.")

\* AuthService.resetPassword
resetPassword(db, email, otp, newPassword, now) ==
    LET v == validateOtp(db, email, otp, PASSWORD_RESET, now) IN
    IF ~v.ok THEN Answer(v.db, BadRequest, v.message)
    ELSE IF email \notin DOMAIN v.db.users
    THEN Answer(v.db, BadRequest, "User not found")
    ELSE Answer([v.db EXCEPT
                   !.users[email].password = hash(newPassword),
                   !.otps[<<email, PASSWORD_RESET>>].isUsed = TRUE],
                OK,
                "Password reset successfully. You can now log in with your new password.")

\* AuthController.verifyOtp: POST /auth/verify-otp
verifyOtp(db, email, otp, now) == verifyRegistrationOtp(db, email, otp, now)

\* ------------------------------------------------------------- the state
\* A call slot with no request in flight.
IdleCall == [pc |-> "idle", id |-> 1, status |-> CREATED,
             interview |-> NullDoc,
             timestamps |-> prepareTimestamps(CREATED, 0), outcome |-> OK]

Init ==
    /\ sessions = <<>>
    /\ clock = 0
    /\ hist = <<>>
    /\ calls = [p \in Calls |-> IdleCall]
    /\ sockets = [c \in Clients |-> "new"]
    /\ activeSessions = <<>>
    /\ timers = <<>>
    /\ started = <<>>
    /\ outbox = [c \in Clients |-> [prev |-> NoEvent, last |-> NoEvent]]
    /\ received = [c \in Clients |-> 0]
    /\ users = <<>>
    /\ otps = <<>>
    /\ resp = NoResponse

\* Append to the call history, keeping the last Len(Scenario) calls.
Remember(h, e) ==
    IF Len(h) < Len(Scenario) THEN Append(h, e) ELSE Append(Tail(h), e)

\* ------------------------------------------------------------- actions
\* Time passes.
AdvanceClock ==
    /\ clock < MaxTime
    /\ clock' = clock + 1
    /\ UNCHANGED <<sessions, hist, calls>>
    /\ UNCHANGED <<gwVars, authVars>>

\* InterviewService.createInterview: the store assigns the next unused id.
CreateInterview ==
    /\ Len(sessions) < MaxSessions
    /\ sessions' = Append(sessions, createSession)
    /\ UNCHANGED <<clock, hist, calls>>
    /\ UNCHANGED <<gwVars, authVars>>

\* PATCH /interviews/:id/status, run to completion.
UpdateInterviewStatus(id, newStatus) ==
    LET r == updateInterviewStatus(sessions, id, newStatus, clock) IN
    /\ sessions' = r.db
    /\ hist' = Remember(hist,
                 [id |-> id, req |-> newStatus, outcome |-> r.outcome,
                  wrote |-> r.wrote, before |-> findById(sessions, id),
                  after |-> findById(r.db, id), doc |-> r.doc])
    /\ UNCHANGED <<clock, calls>>
    /\ UNCHANGED <<gwVars, authVars>>

Next ==
    \/ AdvanceClock
    \/ CreateInterview
    \/ \E id \in Ids, newStatus \in InterviewStatus :
          UpdateInterviewStatus(id, newStatus)

Spec == Init /\ [][Next]_vars

\* ------------------------------------------- interleaved calls (ConcSpec)
\* A request arrives and its awaited findById is answered by the store.
CallFind(p, id, newStatus) ==
    /\ calls[p].pc = "idle"
    /\ calls' = [calls EXCEPT ![p] =
                   [pc |-> "found", id |-> id, status |-> newStatus,
                    interview |-> findById(sessions, id),
                    timestamps |-> prepareTimestamps(CREATED, 0),
                    outcome |-> OK]]
    /\ UNCHANGED <<sessions, clock, hist>>
    /\ UNCHANGED <<gwVars, authVars>>

\* The continuation after findById: the not-found check, the transition
\* validation against the document that was read, and the timestamps; it ends
\* by issuing updateStatus.
CallValidate(p) ==
    LET c == calls[p] IN
    /\ c.pc = "found"
    /\ calls' = [calls EXCEPT ![p] =
          IF c.interview = NullDoc
          THEN [c EXCEPT !.pc = "idle", !.outcome = NotFound]
          ELSE IF ~validateStateTransition(c.interview.status, c.status)
          THEN [c EXCEPT !.pc = "idle", !.outcome = InvalidTransition]
          ELSE [c EXCEPT !.pc = "validated",
                         !.timestamps = prepareTimestamps(c.status, clock)]]
    /\ UNCHANGED <<sessions, clock, hist>>
    /\ UNCHANGED <<gwVars, authVars>>

\* The store applies the awaited updateStatus and the call returns.
CallWrite(p) ==
    LET c == calls[p]
        w == updateStatus(sessions, c.id, c.status, c.timestamps) IN
    /\ c.pc = "validated"
    /\ sessions' = w.db
    /\ calls' = [calls EXCEPT ![p] =
          [c EXCEPT !.pc = "idle", !.interview = w.doc,
                    !.outcome = IF w.doc = NullDoc THEN NotFound ELSE OK]]
    /\ UNCHANGED <<clock, hist>>
    /\ UNCHANGED <<gwVars, authVars>>

ConcNext ==
    \/ AdvanceClock
    \/ CreateInterview
    \/ \E p \in Calls, id \in Ids, newStatus \in InterviewStatus :
          CallFind(p, id, newStatus)
    \/ \E p \in Calls : CallValidate(p)
    \/ \E p \in Calls : CallWrite(p)

ConcSpec == Init /\ [][ConcNext]_vars

\* ------------------------------------------------ gateway (GatewaySpec)
\* The gateway's fields, as the handlers read and write them.
Gateway == [activeSessions |-> activeSessions, timers |-> timers,
            started |-> started, outbox |-> outbox]

\* The gateway's fields after a handler left them as g.
GatewayBecomes(g) ==
    /\ activeSessions' = g.activeSessions
    /\ timers' = g.timers
    /\ started' = g.started
    /\ outbox' = g.outbox

\* A client connects: OnGatewayConnection.
Connect(c) ==
    /\ sockets[c] = "new"
    /\ sockets' = [sockets EXCEPT ![c] = "open"]
    /\ GatewayBecomes(handleConnection(Gateway, c))
    /\ UNCHANGED <<svcVars, received, authVars>>

\* The peer becomes unreachable; the server has not noticed yet.
TransportLost(c) ==
    /\ sockets[c] = "open"
    /\ sockets' = [sockets EXCEPT ![c] = "gone"]
    /\ UNCHANGED <<activeSessions, timers, started, outbox>>
    /\ UNCHANGED <<svcVars, received, authVars>>

\* The socket is closed: OnGatewayDisconnect.
Disconnect(c) ==
    /\ sockets[c] \in {"open", "gone"}
    /\ sockets' = [sockets EXCEPT ![c] = "closed"]
    /\ GatewayBecomes(handleDisconnect(Gateway, c))
    /\ UNCHANGED <<svcVars, received, authVars>>

\* The session of the store that a sessionId names (the join key of the
\* REST side and the channel); 0 names none.
SessionKey(sessionId) ==
    CASE sessionId = "s1" -> 1
      [] sessionId = "s2" -> 2
      [] OTHER -> 0

\* Variant of the message handling that also moves the named session of the
\* store to IN_PROGRESS.
StartInterviewSessionMarksInProgress(c, sessionId) ==
    /\ sockets[c] = "open"
    /\ Len(started) < MaxStarts
    /\ GatewayBecomes(handleStartInterviewSession(Gateway, c, sessionId))
    /\ sessions' = updateStatus(sessions, SessionKey(sessionId), IN_PROGRESS,
                                prepareTimestamps(IN_PROGRESS, clock)).db
    /\ UNCHANGED <<sockets, clock, hist, calls, received, authVars>>

\* A "startInterviewSession" message arrives on a connected socket.
StartInterviewSession(c, sessionId) ==
    /\ sockets[c] = "open"
    /\ Len(started) < MaxStarts
    /\ GatewayBecomes(handleStartInterviewSession(Gateway, c, sessionId))
    /\ UNCHANGED sockets
    /\ UNCHANGED <<svcVars, received, authVars>>

\* An armed interval fires.
Tick(handle) ==
    /\ handle \in DOMAIN timers
    /\ timers[handle].feedbackCount < CountLimit
    /\ GatewayBecomes(tick(Gateway, handle,
                           sockets[timers[handle].client] = "open"))
    /\ UNCHANGED sockets
    /\ UNCHANGED <<svcVars, received, authVars>>

Handles == 1..MaxStarts

GatewayNext ==
    \/ \E c \in Clients : Connect(c)
    \/ \E c \in Clients : TransportLost(c)
    \/ \E c \in Clients : Disconnect(c)
    \/ \E c \in Clients, sessionId \in SessionIds :
          StartInterviewSession(c, sessionId)
    \/ \E handle \in Handles : Tick(handle)

GatewaySpec == Init /\ [][GatewayNext]_vars

GatewayFairSpec ==
    GatewaySpec /\ \A handle \in Handles : WF_vars(Tick(handle))

\* ------------------------------------------------ channel (ChannelSpec)
\* The contents the session store can have when the gateway runs: session 1
\* created and moved along its lifecycle by updateInterviewStatus; no other
\* id names a session.
StoredSessions ==
    LET created == <<createSession>>
        inProgress == updateInterviewStatus(created, 1, IN_PROGRESS, 0).db
        completed == updateInterviewStatus(inProgress, 1, COMPLETED, 0).db
    IN {created, inProgress, completed}

ChannelInit ==
    /\ sessions \in StoredSessions
    /\ clock = 0
    /\ hist = <<>>
    /\ calls = [p \in Calls |-> IdleCall]
    /\ sockets = [c \in Clients |-> "new"]
    /\ activeSessions = <<>>
    /\ timers = <<>>
    /\ started = <<>>
    /\ outbox = [c \in Clients |-> [prev |-> NoEvent, last |-> NoEvent]]
    /\ received = [c \in Clients |-> 0]
    /\ users = <<>>
    /\ otps = <<>>
    /\ resp = NoResponse

\* The sessionIds that name an interview: "s1" the stored one, "s2" none.
NamedSessionIds == SessionIds \ {""}

ChannelNext ==
    \/ \E c \in Clients : Connect(c)
    \/ \E c \in Clients : TransportLost(c)
    \/ \E c \in Clients : Disconnect(c)
    \/ \E c \in Clients, sessionId \in NamedSessionIds :
          StartInterviewSession(c, sessionId)
    \/ \E handle \in Handles : Tick(handle)

ChannelSpec == ChannelInit /\ [][ChannelNext]_vars

\* --------------------------------------------- two connections (PeerSpec)
\* Two clients connected to the gateway at the same time.
Peers == {1, 2}

PeerInit ==
    /\ sessions = <<>>
    /\ clock = 0
    /\ hist = <<>>
    /\ calls = [p \in Calls |-> IdleCall]
    /\ sockets = [c \in Peers |-> "new"]
    /\ activeSessions = <<>>
    /\ timers = <<>>
    /\ started = <<>>
    /\ outbox = [c \in Peers |-> [prev |-> NoEvent, last |-> NoEvent]]
    /\ received = [c \in Peers |-> 0]
    /\ users = <<>>
    /\ otps = <<>>
    /\ resp = NoResponse

PeerNext ==
    \/ \E c \in Peers : Connect(c)
    \/ \E c \in Peers : TransportLost(c)
    \/ \E c \in Peers : Disconnect(c)
    \/ \E c \in Peers, sessionId \in SessionIds :
          StartInterviewSession(c, sessionId)
    \/ \E handle \in Handles : Tick(handle)

PeerSpec == PeerInit /\ [][PeerNext]_vars

\* ------------------------------------------ counted events (CountSpec)
\* An armed interval fires; the event it emits is counted for its client.
TickCounted(handle) ==
    /\ handle \in DOMAIN timers
    /\ timers[handle].feedbackCount < CountLimit
    /\ GatewayBecomes(tick(Gateway, handle,
                           sockets[timers[handle].client] = "open"))
    /\ received' = [received EXCEPT ![timers[handle].client] = @ + 1]
    /\ UNCHANGED sockets
    /\ UNCHANGED <<svcVars, authVars>>

CountNext ==
    \/ \E c \in Clients : Connect(c)
    \/ \E c \in Clients : TransportLost(c)
    \/ \E c \in Clients : Disconnect(c)
    \/ \E c \in Clients, sessionId \in NamedSessionIds :
          StartInterviewSession(c, sessionId)
    \/ \E handle \in Handles : TickCounted(handle)

CountSpec == Init /\ [][CountNext]_vars

\* ------------------------------------------------------- auth (AuthSpec)
\* The collections, as the service methods read and write them.
Db == [users |-> users, otps |-> otps]

\* The request op for email was answered a.
Answered(op, email, a) ==
    /\ users' = a.users
    /\ otps' = a.otps
    /\ resp' = [op |-> op, email |-> email, status |-> a.status,
                message |-> a.message]
    /\ UNCHANGED <<svcVars, gwVars>>

\* POST /auth/register; otp is what generateOtp draws.
Register(email, password, otp, emailSent) ==
    Answered("register", email,
             register(Db, email, password, otp, clock, emailSent))

\* POST /auth/verify-otp
VerifyOtp(email, otp) ==
    Answered("verify-otp", email, verifyOtp(Db, email, otp, clock))

\* POST /auth/login
Login(email, password) ==
    Answered("login", email, login(Db, email, password))

\* POST /auth/send-otp
SendOtp(email, otp, emailSent) ==
    Answered("send-otp", email,
             sendPasswordResetOtp(Db, email, otp, clock, emailSent))

\* POST /auth/reset-password
ResetPassword(email, otp, newPassword) ==
    Answered("reset-password", email,
             resetPassword(Db, email, otp, newPassword, clock))

\* The TTL index on expiresAt: MongoDB deletes an expired OTP document.
TtlDelete(email, purpose) ==
    /\ <<email, purpose>> \in DOMAIN otps
    /\ otps[<<email, purpose>>].expiresAt < clock
    /\ otps' = mapDelete(otps, <<email, purpose>>)
    /\ UNCHANGED <<users, resp>>
    /\ UNCHANGED <<svcVars, gwVars>>

AuthNext ==
    \/ AdvanceClock
    \/ \E email \in Emails, password \in Passwords, otp \in OtpCodes,
          emailSent \in BOOLEAN : Register(email, password, otp, emailSent)
    \/ \E email \in Emails, otp \in OtpCodes : VerifyOtp(email, otp)
    \/ \E email \in Emails, password \in Passwords : Login(email, password)
    \/ \E email \in Emails, otp \in OtpCodes, emailSent \in BOOLEAN :
          SendOtp(email, otp, emailSent)
    \/ \E email \in Emails, otp \in OtpCodes, newPassword \in Passwords :
          ResetPassword(email, otp, newPassword)
    \/ \E email \in Emails, purpose \in {REGISTRATION, PASSWORD_RESET} :
          TtlDelete(email, purpose)

AuthSpec == Init /\ [][AuthNext]_vars


\* ---------------------------------------------------------------- claims
\* Position of a status in the lifecycle CREATED -> IN_PROGRESS -> COMPLETED.
Rank(status) ==
    CASE status = CREATED -> 0
      [] status = IN_PROGRESS -> 1
      [] status = COMPLETED -> 2

\* The most recent completed call.
Last == hist[Len(hist)]

\* The call hist[i] requested the status its session already had.
IsRepeat(e) == e.before # NullDoc /\ e.req = e.before.status

\* C1: over calls executed one after another, no step removes a session or
\* leaves its status at an earlier lifecycle state than before the step.
C1_StatusOnlyMovesForward ==
    [][\A id \in DOMAIN sessions :
          /\ id \in DOMAIN sessions'
          /\ Rank(sessions[id].status) <= Rank(sessions'[id].status)]_vars

\* An accepted forward move followed by a rejected backward request.
C1_Witness ==
    \E i \in 1..(Len(hist) - 1) :
        /\ hist[i].id = hist[i + 1].id
        /\ hist[i].outcome = OK
        /\ Rank(hist[i].before.status) < Rank(hist[i].after.status)
        /\ hist[i + 1].outcome = InvalidTransition
        /\ Rank(hist[i + 1].req) < Rank(hist[i + 1].before.status)

\* C2: a call requesting the status the session already has succeeds and
\* returns the record as it was before the call, and a second such call in a
\* row returns the same record as the first.
C2_IdempotentRepeatIdentical ==
    \A i \in 1..Len(hist) :
        IsRepeat(hist[i]) =>
            /\ hist[i].outcome = OK
            /\ hist[i].doc = hist[i].before
            /\ (/\ i < Len(hist)
                /\ hist[i + 1].id = hist[i].id
                /\ hist[i + 1].req = hist[i].req) => hist[i + 1].doc = hist[i].doc

\* C3: a call requesting the status the session already has does not invoke
\* the repository's updateStatus.
C3_RepeatDoesNotWrite ==
    \A i \in 1..Len(hist) : IsRepeat(hist[i]) => ~hist[i].wrote

\* C4: a call rejected with InvalidTransition has not invoked updateStatus and
\* leaves status, startedAt and completedAt of the session as they were.
C4_RejectionLeavesRecordUnchanged ==
    \A i \in 1..Len(hist) :
        hist[i].outcome = InvalidTransition =>
            /\ ~hist[i].wrote
            /\ hist[i].after = hist[i].before

\* COMPLETED requested on a session still in CREATED was rejected.
C4_Witness ==
    /\ hist # <<>>
    /\ Last.outcome = InvalidTransition
    /\ Last.before.status = CREATED
    /\ Last.req = COMPLETED

\* The transition table as the specification gives it.
LegalPairs == {<<CREATED, IN_PROGRESS>>, <<IN_PROGRESS, COMPLETED>>}

\* C5: on an existing session a call succeeds exactly when the requested
\* status is the current one or the pair is in the table; every other call
\* fails with InvalidTransition.
C5_SucceedsExactlyOnTable ==
    \A i \in 1..Len(hist) :
        hist[i].before # NullDoc =>
            IF \/ hist[i].req = hist[i].before.status
               \/ <<hist[i].before.status, hist[i].req>> \in LegalPairs
            THEN hist[i].outcome = OK
            ELSE hist[i].outcome = InvalidTransition

\* A table transition, then a repeat, then a rejected request from COMPLETED.
C5_Witness ==
    /\ Len(hist) = 3
    /\ hist[1].outcome = OK /\ hist[1].before.status = IN_PROGRESS
    /\ hist[1].req = COMPLETED
    /\ hist[2].outcome = OK /\ hist[2].before.status = COMPLETED
    /\ hist[2].req = COMPLETED
    /\ hist[3].outcome = InvalidTransition /\ hist[3].before.status = COMPLETED
    /\ hist[3].req = CREATED

\* C6: over calls executed one after another, startedAt is set exactly when
\* the status is IN_PROGRESS or COMPLETED and completedAt exactly when it is
\* COMPLETED.
C6_TimestampsMatchStatus ==
    \A id \in DOMAIN sessions :
        /\ sessions[id].startedAt # Null
              <=> sessions[id].status \in {IN_PROGRESS, COMPLETED}
        /\ sessions[id].completedAt # Null
              <=> sessions[id].status = COMPLETED

\* A session taken to COMPLETED by an accepted call.
C6_Witness ==
    /\ hist # <<>>
    /\ Last.outcome = OK
    /\ Last.before.status = IN_PROGRESS
    /\ sessions[Last.id].status = COMPLETED
    /\ sessions[Last.id].completedAt # Null

\* C7: once startedAt (completedAt) of a session is set, no step changes it.
C7_TimestampsSetOnce ==
    [][\A id \in DOMAIN sessions :
          /\ sessions[id].startedAt # Null
                => sessions'[id].startedAt = sessions[id].startedAt
          /\ sessions[id].completedAt # Null
                => sessions'[id].completedAt = sessions[id].completedAt]_vars

\* C8: on a fresh session, the three calls of Scenario in a row: the first
\* succeeds, sets startedAt and leaves completedAt null; the second succeeds,
\* sets completedAt and keeps startedAt; the third fails with
\* InvalidTransition.
C8_LifecycleScenario ==
    (/\ Len(hist) = Len(Scenario)
     /\ \A k \in 1..Len(Scenario) :
           hist[k].id = hist[1].id /\ hist[k].req = Scenario[k]
     /\ hist[1].before = createSession)
    =>
    /\ hist[1].outcome = OK
    /\ hist[1].doc = hist[1].after
    /\ hist[1].after.startedAt # Null
    /\ hist[1].after.completedAt = Null
    /\ hist[2].outcome = OK
    /\ hist[2].doc = hist[2].after
    /\ hist[2].after.completedAt # Null
    /\ hist[2].after.startedAt = hist[1].after.startedAt
    /\ hist[3].outcome = InvalidTransition

\* The scenario has run, with time passing between its first two calls.
C8_Witness ==
    /\ Len(hist) = Len(Scenario)
    /\ \A k \in 1..Len(Scenario) :
          hist[k].id = hist[1].id /\ hist[k].req = Scenario[k]
    /\ hist[1].before = createSession
    /\ hist[3].outcome = InvalidTransition
    /\ hist[1].after.startedAt < hist[2].after.completedAt

\* C9: a call for an id that names no session fails with NotFound, whatever
\* status it requests, and leaves the collection as it was.
C9_UnknownIdIsNotFound ==
    [][\A id \in Ids, newStatus \in InterviewStatus :
          (id \notin DOMAIN sessions /\ UpdateInterviewStatus(id, newStatus))
          => /\ sessions' = sessions
             /\ hist'[Len(hist')].outcome = NotFound]_vars

\* A call for an unknown id was answered NotFound while a session exists.
C9_Witness ==
    /\ hist # <<>>
    /\ Last.id \notin DOMAIN sessions
    /\ Last.outcome = NotFound
    /\ sessions # <<>>

\* C10: with the read and the write of concurrent calls interleaved, no step
\* moves a session's persisted status to an earlier lifecycle state.
C10_StatusMonotonicUnderInterleaving ==
    [][~\E id \in DOMAIN sessions :
           Rank(sessions'[id].status) < Rank(sessions[id].status)]_vars

\* ------------------------------------------------- claims on the gateway
\* The intervals armed for a client.
TimersOf(tms, c) == {t \in DOMAIN tms : tms[t].client = c}

\* The interval is the one held by its client's ActiveSession.
Registered(t) ==
    /\ t \in DOMAIN timers
    /\ timers[t].client \in DOMAIN activeSessions
    /\ activeSessions[timers[t].client].feedbackTimer = t

\* C11: a startInterviewSession leaves its client with exactly one
\* ActiveSession and one armed interval, a new one, bound to the new
\* sessionId; every interval created for the client before is cancelled,
\* whether it had reached the cap or not, and a cancelled interval is never
\* armed again.
C11_ReplaceLeavesOneLoop ==
    [][/\ \A c \in Clients, sid \in SessionIds :
            StartInterviewSession(c, sid) =>
                /\ c \in DOMAIN activeSessions'
                /\ activeSessions'[c].sessionId = sid
                /\ activeSessions'[c].feedbackTimer \notin 1..Len(started)
                /\ \A t \in 1..Len(started) :
                      started[t] = c => t \notin DOMAIN timers'
                /\ TimersOf(timers', c) = {activeSessions'[c].feedbackTimer}
                /\ timers'[activeSessions'[c].feedbackTimer].sessionId = sid
       /\ \A t \in 1..Len(started) :
            t \notin DOMAIN timers => t \notin DOMAIN timers']_vars

\* The loop for s1 emitted, was replaced by a loop for s2, and that one emitted.
C11_Witness ==
    \E c \in Clients :
        /\ started = <<c, c>>
        /\ c \in DOMAIN activeSessions
        /\ activeSessions[c].sessionId = "s2"
        /\ activeSessions[c].feedbackTimer = 2
        /\ outbox[c].prev.event = "feedback"
        /\ outbox[c].prev.timer = 1
        /\ outbox[c].prev.sessionId = "s1"
        /\ outbox[c].last.event = "feedback"
        /\ outbox[c].last.timer = 2

\* C12: every tick emits one feedback event numbered one more than the last;
\* no tick is numbered past MaxFeedback; the tick numbered MaxFeedback emits
\* its event and leaves the client with no ActiveSession and no armed
\* interval; an earlier tick leaves the loop as it was.
C12_EmissionCap ==
    [][\A t \in Handles :
          Tick(t) =>
            LET c == timers[t].client
                n == timers[t].feedbackCount + 1
            IN /\ n <= MaxFeedback
               /\ outbox'[c].last.event = "feedback"
               /\ outbox'[c].last.n = n
               /\ outbox'[c].last.timer = t
               /\ IF n = MaxFeedback
                  THEN /\ c \notin DOMAIN activeSessions'
                       /\ TimersOf(timers', c) = {}
                  ELSE /\ t \in DOMAIN timers'
                       /\ timers'[t].feedbackCount = n
                       /\ activeSessions' = activeSessions]_vars

\* A loop ran to its cap on a socket that is still open.
C12_Witness ==
    \E c \in Clients :
        /\ sockets[c] = "open"
        /\ outbox[c].last.event = "feedback"
        /\ outbox[c].last.n = MaxFeedback
        /\ outbox[c].prev.n = MaxFeedback - 1
        /\ c \notin DOMAIN activeSessions
        /\ timers = <<>>

\* C13: a client whose disconnect handler has run has no ActiveSession and
\* no armed interval.
C13_NoLeakAfterDisconnect ==
    \A c \in Clients :
        sockets[c] = "closed" =>
            /\ c \notin DOMAIN activeSessions
            /\ TimersOf(timers, c) = {}

\* A client disconnected while its loop was short of the cap.
C13_Witness ==
    \E c \in Clients :
        /\ sockets[c] = "closed"
        /\ outbox[c].last.event = "disconnected"
        /\ outbox[c].prev.event = "feedback"
        /\ outbox[c].prev.n < MaxFeedback

\* C14: with every armed interval firing again and again, an interval that
\* is armed is eventually cancelled for good and held by no ActiveSession.
C14_EveryLoopEventuallyCancelled ==
    \A t \in Handles :
        (t \in DOMAIN timers)
            ~> [](/\ t \notin DOMAIN timers
                  /\ \A c \in DOMAIN activeSessions :
                        activeSessions[c].feedbackTimer # t)

\* A loop that was left running has ended at its cap.
C14_Witness ==
    \E c \in Clients :
        /\ started = <<c>>
        /\ timers = <<>>
        /\ activeSessions = <<>>
        /\ outbox[c].last.event = "feedback"
        /\ outbox[c].last.n = MaxFeedback

\* C15: every armed interval is the one its client's ActiveSession holds, so
\* a tick runs, and transmits, only for the session registered for its client
\* at that moment; the interval of a session torn down or replaced is not
\* armed and its callback does not run.
C15_TickOnlyForRegisteredSession ==
    [][/\ \A t \in DOMAIN timers : Registered(t)
       /\ \A t \in Handles :
            Tick(t) =>
                /\ Registered(t)
                /\ outbox'[timers[t].client].last.loopAlive
                /\ outbox'[timers[t].client].last.sessionId
                      = activeSessions[timers[t].client].sessionId]_vars

\* The first loop was replaced and the loop that replaced it has emitted.
C15_Witness ==
    \E c \in Clients :
        /\ started = <<c, c>>
        /\ 1 \notin DOMAIN timers
        /\ Registered(2)
        /\ outbox[c].last.event = "feedback"
        /\ outbox[c].last.timer = 2
        /\ outbox[c].last.loopAlive

\* C16: a tick whose event cannot be transmitted (the peer is gone) still
\* runs to completion: it emits that one event, undelivered, counts it, tears
\* the session down when the count has reached MaxFeedback, and otherwise
\* leaves the interval armed for the next tick.
C16_FailedTransmitDoesNotStopTick ==
    [][\A t \in Handles :
          (Tick(t) /\ sockets[timers[t].client] = "gone") =>
            LET c == timers[t].client
                n == timers[t].feedbackCount + 1
            IN /\ outbox'[c].last.event = "feedback"
               /\ ~outbox'[c].last.delivered
               /\ outbox'[c].last.n = n
               /\ outbox'[c].prev = outbox[c].last
               /\ IF n >= MaxFeedback
                  THEN /\ t \notin DOMAIN timers'
                       /\ c \notin DOMAIN activeSessions'
                  ELSE /\ t \in DOMAIN timers'
                       /\ timers'[t].feedbackCount = n
                       /\ Registered(t)']_vars

\* The tenth tick failed to transmit and still tore the session down.
C16_Witness ==
    \E c \in Clients :
        /\ sockets[c] = "gone"
        /\ outbox[c].last.event = "feedback"
        /\ ~outbox[c].last.delivered
        /\ outbox[c].last.n = MaxFeedback
        /\ c \notin DOMAIN activeSessions
        /\ timers = <<>>

\* C17 (as stated): a startInterviewSession whose sessionId is empty is
\* rejected before any loop is started: no interval is armed, no
\* ActiveSession is stored and the client's registered session stays as it
\* was.
C17_EmptySessionIdRejected ==
    [][\A c \in Clients :
          StartInterviewSession(c, "") =>
              UNCHANGED <<activeSessions, timers, started>>]_vars

\* C18: the event of a tick is a function of feedbackCount after the
\* increment alone: type = [PACE, FILLER, CONFIDENCE, RELEVANCE][n mod 4],
\* severity = [LOW, MEDIUM, HIGH][n mod 3], message = the table entry of that
\* type at the severity's index; whatever the client, the session or the
\* interval, the n-th tick emits the same (type, severity, message).
C18_DeterministicSelection ==
    [][\A t \in Handles :
          Tick(t) =>
            LET n == timers[t].feedbackCount + 1
                e == outbox'[timers[t].client].last
            IN /\ e.event = "feedback"
               /\ e.n = n
               /\ e.type = <<PACE, FILLER, CONFIDENCE, RELEVANCE>>[(n % 4) + 1]
               /\ e.severity = <<LOW, MEDIUM, HIGH>>[(n % 3) + 1]
               /\ e.message = messages[e.type][(n % 3) + 1]
               /\ \A c \in Clients :
                    \A o \in {outbox[c].prev, outbox[c].last} :
                        (o.event = "feedback" /\ o.n = n) =>
                            /\ o.type = e.type
                            /\ o.severity = e.severity
                            /\ o.message = e.message]_vars

\* The seventh tick of a second loop emitted RELEVANCE / MEDIUM after the
\* sixth emitted CONFIDENCE / LOW.
C18_Witness ==
    \E c \in Clients :
        /\ outbox[c].last.event = "feedback"
        /\ outbox[c].last.n = 7
        /\ outbox[c].last.timer = 2
        /\ outbox[c].last.type = RELEVANCE
        /\ outbox[c].last.severity = MEDIUM
        /\ outbox[c].last.message =
              "Answer is somewhat relevant but could be more focused"
        /\ outbox[c].prev.type = CONFIDENCE
        /\ outbox[c].prev.severity = LOW

\* C19: handleDisconnect tears the client's session down before it emits
\* "disconnected"; once it has run, nothing more is emitted on that socket, so
\* "disconnected" stays the last event and no feedback follows it.
C19_DisconnectedIsLastEvent ==
    [][\A c \in Clients :
          /\ Disconnect(c) =>
                /\ outbox'[c].last.event = "disconnected"
                /\ ~outbox'[c].last.loopAlive
                /\ outbox'[c].prev = outbox[c].last
                /\ c \notin DOMAIN activeSessions'
                /\ TimersOf(timers', c) = {}
          /\ sockets[c] = "closed" =>
                /\ outbox[c].last.event = "disconnected"
                /\ outbox'[c] = outbox[c]
                /\ TimersOf(timers, c) = {}]_vars

\* A running loop was cut short by the disconnect.
C19_Witness ==
    \E c \in Clients :
        /\ sockets[c] = "closed"
        /\ outbox[c].last.event = "disconnected"
        /\ outbox[c].prev.event = "feedback"
        /\ outbox[c].prev.loopAlive
        /\ outbox[c].prev.n < MaxFeedback

\* C20: handleConnection emits "connected" and nothing else: it stores no
\* ActiveSession and arms no interval; a feedback event is emitted to a
\* client only from an interval that a startInterviewSession of that client
\* armed.
C20_ConnectStartsNoLoop ==
    [][\A c \in Clients :
          /\ Connect(c) =>
                /\ outbox'[c].last.event = "connected"
                /\ outbox'[c].prev = outbox[c].last
                /\ UNCHANGED <<activeSessions, timers, started>>
                /\ TimersOf(timers', c) = {}
          /\ \A o \in {outbox'[c].prev, outbox'[c].last} :
                o.event = "feedback" =>
                    /\ o.timer \in 1..Len(started)
                    /\ started[o.timer] = c]_vars

\* A connected client that has sent no startInterviewSession has received
\* "connected" only.
C20_Witness ==
    \E c \in Clients :
        /\ sockets[c] \in {"open", "gone"}
        /\ started = <<>>
        /\ outbox[c].last.event = "connected"
        /\ outbox[c].prev = NoEvent

\* C21: no step of the gateway changes the session store (status, startedAt,
\* completedAt of every session stay as they were), and a
\* startInterviewSession arms its loop, and each tick of it emits, whatever
\* the store holds for that sessionId: a session in any status or none.
C21_ChannelLeavesStoreAlone ==
    [][/\ sessions' = sessions
       /\ \A c \in Clients, sid \in SessionIds :
            StartInterviewSession(c, sid) =>
                /\ c \in DOMAIN activeSessions'
                /\ activeSessions'[c].sessionId = sid
                /\ timers'[activeSessions'[c].feedbackTimer].feedbackCount = 0
       /\ \A t \in Handles :
            Tick(t) =>
                /\ outbox'[timers[t].client].last.event = "feedback"
                /\ outbox'[timers[t].client].last.sessionId
                      = timers[t].sessionId]_vars

\* A loop for a session the store holds as COMPLETED ran to its cap.
C21_Witness ==
    \E c \in Clients :
        /\ findById(sessions, SessionKey(outbox[c].last.sessionId)) # NullDoc
        /\ sessions[SessionKey(outbox[c].last.sessionId)].status = COMPLETED
        /\ outbox[c].last.event = "feedback"
        /\ outbox[c].last.n = MaxFeedback
        /\ c \notin DOMAIN activeSessions

\* ------------------------------------------- claims on two connections
\* The timers held by the entries of activeSessions.
HeldTimers == {activeSessions[c].feedbackTimer : c \in DOMAIN activeSessions}

\* C26: in every reachable state the armed intervals are exactly the
\* intervals held by the entries of activeSessions: each entry is filed under
\* its own client and holds an armed interval of that client, no interval is
\* armed without its entry, and a client has at most one armed interval.
C26_TimersMatchMap ==
    /\ DOMAIN timers = HeldTimers
    /\ \A c \in DOMAIN activeSessions :
          /\ activeSessions[c].clientId = c
          /\ activeSessions[c].feedbackTimer \in DOMAIN timers
          /\ timers[activeSessions[c].feedbackTimer].client = c
          /\ timers[activeSessions[c].feedbackTimer].sessionId
                = activeSessions[c].sessionId
    /\ \A c \in Peers : Cardinality(TimersOf(timers, c)) <= 1

\* Both connections have a loop of their own, some ticks in, one of them
\* running on a socket whose peer is gone.
C26_Witness ==
    /\ started = <<1, 2>>
    /\ DOMAIN activeSessions = Peers
    /\ DOMAIN timers = {1, 2}
    /\ sockets[2] = "gone"
    /\ timers[1].feedbackCount > 0
    /\ timers[2].feedbackCount > 0

\* What the gateway holds for one client.
ViewOf(socks, act, tms, out, c) ==
    <<socks[c],
      IF c \in DOMAIN act THEN <<act[c]>> ELSE <<>>,
      [t \in TimersOf(tms, c) |-> tms[t]],
      out[c]>>

\* The step is an operation on the connection of client d.
OperationOn(d) ==
    \/ Connect(d)
    \/ TransportLost(d)
    \/ Disconnect(d)
    \/ \E sid \in SessionIds : StartInterviewSession(d, sid)
    \/ \E t \in DOMAIN timers : timers[t].client = d /\ Tick(t)

\* C27: an operation on one connection (startInterviewSession, a tick, the
\* teardown at the cap, disconnect) leaves what the gateway holds for every
\* other connection as it was: its ActiveSession, its interval and count, its
\* socket and its emitted events, also when both monitor the same sessionId.
C27_LoopsIndependent ==
    [][\A d \in Peers :
          OperationOn(d) =>
            \A c \in Peers \ {d} :
                ViewOf(sockets', activeSessions', timers', outbox', c)
                    = ViewOf(sockets, activeSessions, timers, outbox, c)]_vars

\* Both connections monitored "s1"; the loop of one ended at its cap while
\* the loop of the other is still registered, some ticks in.
C27_Witness ==
    /\ started = <<1, 2>>
    /\ outbox[1].last.event = "feedback"
    /\ outbox[1].last.n = MaxFeedback
    /\ outbox[1].last.sessionId = "s1"
    /\ 1 \notin DOMAIN activeSessions
    /\ 2 \in DOMAIN activeSessions
    /\ activeSessions[2].sessionId = "s1"
    /\ timers[2].feedbackCount \in 1..(MaxFeedback - 1)

\* C28: tearing down a client that has no ActiveSession leaves the map and
\* every interval as they are, and a second teardown of any client changes
\* nothing the first one left; a disconnect of a client with no session
\* changes neither the map nor the intervals.
C28_TeardownIdempotent ==
    [][/\ \A c \in Peers :
            LET once == cleanupClientSession(Gateway, c) IN
            /\ cleanupClientSession(once, c) = once
            /\ c \notin DOMAIN once.activeSessions
            /\ c \notin DOMAIN activeSessions => once = Gateway
       /\ \A c \in Peers :
            (Disconnect(c) /\ c \notin DOMAIN activeSessions) =>
                /\ activeSessions' = activeSessions
                /\ timers' = timers]_vars

\* A client whose loop had ended at its cap disconnected while the other
\* client's loop was running.
C28_Witness ==
    /\ sockets[1] = "closed"
    /\ outbox[1].last.event = "disconnected"
    /\ outbox[1].prev.event = "feedback"
    /\ outbox[1].prev.n = MaxFeedback
    /\ 2 \in DOMAIN activeSessions
    /\ timers[activeSessions[2].feedbackTimer].feedbackCount > 0

\* ------------------------------------------- claims on counted events
\* The startInterviewSession signals the client has sent.
SignalsOf(c) == {t \in 1..Len(started) : started[t] = c}

\* C29: every startInterviewSession starts its loop's count at 0 whatever
\* the replaced loop had emitted; a loop emits events numbered one above the
\* last, never past MaxFeedback; and the feedback events emitted to a client
\* over its lifetime number at most MaxFeedback times the
\* startInterviewSession signals it has sent.
C29_CountBelongsToLoop ==
    [][/\ \A c \in Clients, sid \in SessionIds :
            StartInterviewSession(c, sid) =>
                timers'[activeSessions'[c].feedbackTimer].feedbackCount = 0
       /\ \A t \in Handles :
            TickCounted(t) =>
                /\ outbox'[timers[t].client].last.n
                      = timers[t].feedbackCount + 1
                /\ outbox'[timers[t].client].last.n <= MaxFeedback
       /\ \A c \in Clients :
            /\ received[c] <= MaxFeedback * Cardinality(SignalsOf(c))
            /\ c \in DOMAIN activeSessions =>
                  received[c] + MaxFeedback
                        - timers[activeSessions[c].feedbackTimer].feedbackCount
                     <= MaxFeedback * Cardinality(SignalsOf(c))]_vars

\* A loop that had emitted 3 events was replaced, and the second loop ran
\* from 1 to its cap: 13 events for 2 signals.
C29_Witness ==
    \E c \in Clients :
        /\ started = <<c, c>>
        /\ received[c] = MaxFeedback + 3
        /\ outbox[c].last.event = "feedback"
        /\ outbox[c].last.n = MaxFeedback
        /\ outbox[c].last.timer = 2
        /\ c \notin DOMAIN activeSessions

\* ------------------------------------------- claims on the event cycle
\* The (type, severity) pair of the event selected for a count.
PairAt(count) ==
    <<generateMockFeedback(count).type, generateMockFeedback(count).severity>>

\* The pairs selected for the counts 1..MaxFeedback are pairwise distinct.
CyclePairsDistinct ==
    \A i, j \in 1..MaxFeedback : i # j => PairAt(i) # PairAt(j)

\* C30: the events of a loop are selected for counts 1..MaxFeedback only:
\* the first is (FILLER, MEDIUM), the pairs of the MaxFeedback counts are
\* pairwise distinct, and neither (PACE, LOW) nor (RELEVANCE, HIGH) is ever
\* emitted.
C30_CycleCoverage ==
    /\ CyclePairsDistinct
    /\ \A c \in Clients :
          \A e \in {outbox[c].prev, outbox[c].last} :
              e.event = "feedback" =>
                  /\ e.n \in 1..MaxFeedback
                  /\ <<e.type, e.severity>> = PairAt(e.n)
                  /\ e.n = 1 => <<e.type, e.severity>> = <<FILLER, MEDIUM>>
                  /\ <<e.type, e.severity>> # <<PACE, LOW>>
                  /\ <<e.type, e.severity>> # <<RELEVANCE, HIGH>>
    /\ \A c \in Clients :
          (/\ outbox[c].prev.event = "feedback"
           /\ outbox[c].last.event = "feedback"
           /\ outbox[c].prev.timer = outbox[c].last.timer) =>
              /\ outbox[c].last.n = outbox[c].prev.n + 1
              /\ <<outbox[c].prev.type, outbox[c].prev.severity>>
                    # <<outbox[c].last.type, outbox[c].last.severity>>

\* An uninterrupted loop emitted its first event, (FILLER, MEDIUM), and then
\* its second.
C30_Witness ==
    \E c \in Clients :
        /\ started = <<c>>
        /\ outbox[c].prev.event = "feedback"
        /\ outbox[c].prev.n = 1
        /\ outbox[c].prev.type = FILLER
        /\ outbox[c].prev.severity = MEDIUM
        /\ outbox[c].last.event = "feedback"
        /\ outbox[c].last.n = 2

\* ------------------------------------------------------ claims on auth
\* The collections after the step.
DbAfter == [users |-> users', otps |-> otps']

\* C22: once verifyRegistrationOtp has succeeded for an email and OTP,
\* verifying the same email and OTP again fails, at that time or later; once
\* resetPassword has succeeded for an email and OTP, another resetPassword
\* with the same email and OTP fails; and an OTP document marked used
\* validates no code.
C22_OtpOneTimeUse ==
    [][/\ \A email \in Emails, otp \in OtpCodes :
            (VerifyOtp(email, otp) /\ resp'.status = OK) =>
                \A later \in clock..MaxTime :
                    verifyRegistrationOtp(DbAfter, email, otp, later).status
                        = BadRequest
       /\ \A email \in Emails, otp \in OtpCodes, newPassword \in Passwords :
            (ResetPassword(email, otp, newPassword) /\ resp'.status = OK) =>
                \A later \in clock..MaxTime, again \in Passwords :
                    resetPassword(DbAfter, email, otp, again, later).status
                        = BadRequest
       /\ \A k \in DOMAIN otps :
            otps[k].isUsed =>
                \A otp \in OtpCodes :
                    ~validateOtp(Db, k[1], otp, k[2], clock).ok]_vars

\* Both OTPs of an account have been used, and a further reset-password was
\* refused.
C22_Witness ==
    \E email \in Emails :
        /\ <<email, REGISTRATION>> \in DOMAIN otps
        /\ otps[<<email, REGISTRATION>>].isUsed
        /\ <<email, PASSWORD_RESET>> \in DOMAIN otps
        /\ otps[<<email, PASSWORD_RESET>>].isUsed
        /\ otps[<<email, PASSWORD_RESET>>].expiresAt >= clock
        /\ resp.op = "reset-password"
        /\ resp.status = BadRequest

\* The account has an unused, unexpired password-reset OTP with this code.
ResetOtpIssued(email, otp) ==
    /\ email \in DOMAIN users
    /\ <<email, PASSWORD_RESET>> \in DOMAIN otps
    /\ otps[<<email, PASSWORD_RESET>>].otp = otp
    /\ ~otps[<<email, PASSWORD_RESET>>].isUsed
    /\ clock <= otps[<<email, PASSWORD_RESET>>].expiresAt

\* C23 (as stated): with a password-reset OTP issued for a registered email,
\* POST /auth/verify-otp with that email and OTP succeeds and leaves the OTP
\* unused, and a reset-password with the same email and OTP then succeeds.
C23_ForgotPasswordFlow ==
    [][\A email \in Emails, otp \in OtpCodes :
          (ResetOtpIssued(email, otp) /\ VerifyOtp(email, otp)) =>
              /\ resp'.status = OK
              /\ otps'[<<email, PASSWORD_RESET>>]
                    = otps[<<email, PASSWORD_RESET>>]
              /\ \A newPassword \in Passwords :
                    resetPassword(DbAfter, email, otp, newPassword,
                                  clock).status = OK]_vars

\* The state with the email registered, and the state that differs from it
\* only in that the email belongs to no user.
WithoutUser(db, email) == [db EXCEPT !.users = mapDelete(@, email)]

\* C24 (as stated): sendPasswordResetOtp, the mail going out, answers the same
\* for a registered email as for the same email when it is not registered.
C24_SendOtpHidesExistence ==
    \A email \in DOMAIN users, otp \in OtpCodes :
        LET registered == sendPasswordResetOtp(Db, email, otp, clock, TRUE)
            unknown == sendPasswordResetOtp(WithoutUser(Db, email), email,
                                            otp, clock, TRUE)
        IN /\ registered.status = unknown.status
           /\ registered.message = unknown.message

\* C25: login succeeds only for a user with the right password whose
\* isEmailVerified is true; a registered, unverified user is answered
\* Unauthorized whatever the password; and isEmailVerified becomes true only
\* in a verify-otp step for that email whose OTP matches the account's
\* unused, unexpired registration OTP.
C25_LoginNeedsVerifiedEmail ==
    [][/\ \A email \in Emails, password \in Passwords :
            Login(email, password) =>
                /\ resp'.status = OK =>
                      /\ email \in DOMAIN users
                      /\ users[email].isEmailVerified
                      /\ compare(password, users[email].password)
                /\ (email \in DOMAIN users
                      /\ ~users[email].isEmailVerified) =>
                      resp'.status = Unauthorized
       /\ \A email \in DOMAIN users' :
            (/\ users'[email].isEmailVerified
             /\ ~(email \in DOMAIN users /\ users[email].isEmailVerified)) =>
                \E otp \in OtpCodes :
                    /\ VerifyOtp(email, otp)
                    /\ resp'.status = OK
                    /\ <<email, REGISTRATION>> \in DOMAIN otps
                    /\ otps[<<email, REGISTRATION>>].otp = otp
                    /\ ~otps[<<email, REGISTRATION>>].isUsed
                    /\ clock <= otps[<<email, REGISTRATION>>].expiresAt]_vars

\* A registered user whose email is not verified gave the right password and
\* was refused.
C25_Witness ==
    \E email \in Emails :
        /\ email \in DOMAIN users
        /\ ~users[email].isEmailVerified
        /\ resp.op = "login"
        /\ resp.status = Unauthorized
        /\ resp.message = "Please verify your email before logging in"

====
